---- MODULE Spec2Model ----
(***************************************************************************)
(* A model of to_Mondrian_style.py: boxize (fragment / spawn / split /     *)
(* average / sampler), colorize (roundize / contrastize) and borderize,    *)
(* run in the order main runs them on one pixel buffer.                    *)
(*                                                                         *)
(* A Box is the record [Top, Bottom, Left, Right] of the namedtuple.       *)
(* Pixels are <<x, y>>; colors are <<r, g, b>>.  The source image has the   *)
(* first color of `src` everywhere but at pixel <<0, 0>>, which has the    *)
(* second (the image is uniform when both are equal), so a random sample   *)
(* of n pixels is described by how many of them fell on the second color.  *)
(* An exception of the program ends the run in pc = "error" with the       *)
(* exception's name in err.                                                *)
(***************************************************************************)
EXTENDS Integers, Sequences, FiniteSets

VARIABLES
    width, height,  \* img.width, img.height
    src,            \* the two colors of the source image, <<colorA, colorB>>
    img,            \* the pixel buffer: [Canvas -> color]
    cuts, margin, depth,    \* boxize's arguments
    boxes, gen,     \* fragment's arguments
    split_result,   \* spawn: the box it gave the splitter last and what came back
    white, contrast,        \* colorize's arguments, each a fraction [num, den]
    drawn,          \* colorize: sampleSize of each call of average, in order
    means,          \* colorize: avg_color of each box, [sum, n] (the mean is sum/n)
    colors,         \* colorize: the list colors, <<box, color>> each
    bmargin,        \* borderize's argument margin
    written,        \* borderize: per box, the pixels its borders wrote
    pc, err

vars == <<width, height, src, img, cuts, margin, depth, boxes, gen, split_result,
          white, contrast, drawn, means, colors, bmargin, written, pc, err>>

\* ------------------------------------------------------------------ bounds
MaxSide == 3
MaxCuts == 1
MaxMargin == 1
MaxDepth == 2
PipeDepth == 1
MaxBorder == 1
WhiteDen == 2
MaxGrain == 40

\* ------------------------------------------------------- program constants
maxSample == 100

NoBox == [Top |-> -1, Bottom |-> -1, Left |-> -1, Right |-> -1]
None == <<>>

Min(a, b) == IF a <= b THEN a ELSE b
Max(a, b) == IF a >= b THEN a ELSE b
abs(a) == IF a < 0 THEN -a ELSE a

\* ------------------------------------------------------------- the buffer
Canvas == (0 .. width - 1) \X (0 .. height - 1)

ColorA == <<130, 250, 10>>
ColorB == <<200, 60, 90>>
Palettes == {<<ColorA, ColorA>>, <<ColorA, ColorB>>}

\* Which of the two source colors pixel p has (0: the first, 1: the second).
Shade(p) == IF p = <<0, 0>> THEN 1 ELSE 0

SourceImage == [p \in Canvas |-> src[Shade(p) + 1]]

\* ---------------------------------------------------------------- sampler
sampler(box) ==
    LET w == abs(box.Left - box.Right + 1)
        h == abs(box.Top - box.Bottom + 1)
    IN  Min(w * h, maxSample)

\* ---------------------------------------------------------------- average
\* The pixels average can draw: randint(minx, maxx) x randint(miny, maxy).
SampleArea(box) ==
    (Min(box.Left, box.Right) .. Max(box.Left, box.Right))
        \X (Min(box.Top, box.Bottom) .. Max(box.Top, box.Bottom))

\* average raises ZeroDivisionError when sampleSize is 0 (len(sample) = 0) and
\* IndexError when a drawn pixel is outside the image (img.getpixel).
AvgError(box) ==
    IF sampler(box) = 0 THEN {"ZeroDivisionError"}
    ELSE IF SampleArea(box) \subseteq Canvas THEN {} ELSE {"IndexError"}

\* average returns when it draws at least one sample and every drawn pixel is
\* inside the image.
AvgReturns(box) == sampler(box) > 0 /\ SampleArea(box) \cap Canvas # {}

\* Whether a sample that getpixel accepts can fall on the given source color.
CanDraw(box, shade) == \E p \in SampleArea(box) \cap Canvas : Shade(p) = shade

\* The numbers of samples, out of sampleSize, that can fall on the second color
\* when average returns.
SampleCounts(box) ==
    LET n == sampler(box)
        first == CanDraw(box, 0)
        second == CanDraw(box, 1)
    IN  IF n = 0 THEN {}
        ELSE {k \in 0 .. n : (k > 0 => second) /\ (k < n => first)}

\* average's result when k of the samples fell on the second color: the
\* per-channel sums and the number of samples (red = sum / len(sample)).
Average(box, k) ==
    LET n == sampler(box)
    IN  [sum |-> [c \in 1 .. 3 |-> (n - k) * src[1][c] + k * src[2][c]], n |-> n]

Means(box) == {Average(box, k) : k \in SampleCounts(box)}

\* --------------------------------------------------------------- distance
\* distance(average(box1), average(box2)) as a fraction <<num, den>>.  Both means
\* lie on the segment between the two source colors, at k1/n1 and k2/n2 of it, so
\* the distance is |colorA - colorB|^2 * (k1/n1 - k2/n2)^2; the order of two
\* distances is the order of |k1*n2 - k2*n1| / (n1*n2), which is what is kept.
distance(box1, k1, box2, k2) ==
    IF src[1] = src[2] THEN <<0, 1>>
    ELSE <<abs(k1 * sampler(box2) - k2 * sampler(box1)), sampler(box1) * sampler(box2)>>

Distances(pair) ==
    {distance(pair[1], k1, pair[2], k2) :
        k1 \in SampleCounts(pair[1]), k2 \in SampleCounts(pair[2])}

Less(d, e) == d[1] * e[2] < e[1] * d[2]
LessEq(d, e) == d[1] * e[2] <= e[1] * d[2]

\* ------------------------------------------------------------------ split
\* The cut positions one axis can draw: range(cuts) draws of
\* randint(lo + margin, hi + 1 - margin) when lo + margin < hi - margin.
AxisCuts(a, b) ==
    LET lo == Min(a, b)
        hi == Max(a, b)
    IN  IF lo + margin < hi - margin
        THEN [1 .. cuts -> (lo + margin) .. (hi + 1 - margin)]
        ELSE {<<>>}

VerticalCut(box, cut) == <<[box EXCEPT !.Right = cut], [box EXCEPT !.Left = cut + 1]>>
HorizontalCut(box, cut) == <<[box EXCEPT !.Top = cut], [box EXCEPT !.Bottom = cut + 1]>>

Attempts(box, xs, ys) ==
    [i \in 1 .. Len(xs) |-> VerticalCut(box, xs[i])]
        \o [i \in 1 .. Len(ys) |-> HorizontalCut(box, ys[i])]

\* max(attempts, key=...) computes the key of every attempt, first to last, and
\* the key averages pair[0] then pair[1].
KeyBoxes(attempts) ==
    [i \in 1 .. 2 * Len(attempts) |-> attempts[(i + 1) \div 2][2 - (i % 2)]]

\* The largest and the smallest key an attempt can get.
MaxDistance(pair) ==
    LET ds == Distances(pair) IN CHOOSE d \in ds : \A e \in ds : LessEq(e, d)
MinDistance(pair) ==
    LET ds == Distances(pair) IN CHOOSE d \in ds : \A e \in ds : LessEq(d, e)

\* max returns the first attempt of maximal key: attempt j can be returned when
\* its key can exceed the key of every earlier attempt and be no less than the
\* key of every later one (each key draws its own samples).
CanWin(attempts, j) ==
    LET d == MaxDistance(attempts[j])
    IN  /\ \A i \in 1 .. j - 1 : Less(MinDistance(attempts[i]), d)
        /\ \A i \in j + 1 .. Len(attempts) : LessEq(MinDistance(attempts[i]), d)

\* The exceptions split can end in: the key of some box raises after every
\* earlier key was computed.
SplitErrors(attempts) ==
    LET bs == KeyBoxes(attempts)
    IN  UNION {IF \A j \in 1 .. i - 1 : AvgReturns(bs[j])
               THEN AvgError(bs[i]) ELSE {} : i \in 1 .. Len(bs)}

\* ------------------------------------------------------------------ spawn
\* spawn appending the second half before the first.
Replace_swapped(bs, i, pair) ==
    SubSeq(bs, 1, i - 1) \o <<pair[2], pair[1]>> \o SubSeq(bs, i + 1, Len(bs))

\* new_boxes: boxes with the box at index i replaced by box1 then box2.
Replace(bs, i, pair) ==
    SubSeq(bs, 1, i - 1) \o <<pair[1], pair[2]>> \o SubSeq(bs, i + 1, Len(bs))

StartBox == [Top |-> height - 1, Bottom |-> 0, Left |-> 0, Right |-> width - 1]

\* --------------------------------------------------------------- the state
\* main at its call of boxize, for a search depth among `depths`.
Start(depths) ==
    /\ width \in 1 .. MaxSide
    /\ height \in 1 .. MaxSide
    /\ src \in Palettes
    /\ img = SourceImage
    /\ cuts \in 0 .. MaxCuts
    /\ margin \in 0 .. MaxMargin
    /\ depth \in depths
    /\ boxes = <<StartBox>>
    /\ gen = 0
    /\ split_result = [box |-> NoBox, result |-> None]
    /\ white = [num |-> 0, den |-> 1]
    /\ contrast = [num |-> 1, den |-> 1]
    /\ drawn = <<>>
    /\ means = <<>>
    /\ colors = <<>>
    /\ bmargin = 0
    /\ written = <<>>
    /\ pc = "boxize"
    /\ err = "none"

Init == Start(0 .. PipeDepth)

Later == <<white, contrast, drawn, means, colors, bmargin, written>>
Config == <<width, height, src, cuts, margin, depth>>

\* fragment, gen < depth: spawn draws boxIndex and the splitter returns a pair.
SpawnSplit ==
    /\ pc = "boxize" /\ gen < depth
    /\ \E boxIndex \in 1 .. Len(boxes) :
        LET box == boxes[boxIndex] IN
        \E xs \in AxisCuts(box.Left, box.Right), ys \in AxisCuts(box.Top, box.Bottom) :
            LET attempts == Attempts(box, xs, ys) IN
            /\ attempts # <<>>
            /\ \A i \in 1 .. 2 * Len(attempts) : AvgReturns(KeyBoxes(attempts)[i])
            /\ \E j \in 1 .. Len(attempts) :
                /\ CanWin(attempts, j)
                /\ boxes' = Replace(boxes, boxIndex, attempts[j])
                /\ split_result' = [box |-> box, result |-> attempts[j]]
    /\ gen' = gen + 1
    /\ UNCHANGED <<Config, img, Later, pc, err>>

\* fragment, gen < depth: the splitter returns None and the box is kept.
SpawnNoSplit ==
    /\ pc = "boxize" /\ gen < depth
    /\ \E boxIndex \in 1 .. Len(boxes) :
        LET box == boxes[boxIndex] IN
        /\ \E xs \in AxisCuts(box.Left, box.Right), ys \in AxisCuts(box.Top, box.Bottom) :
            Attempts(box, xs, ys) = <<>>
        /\ split_result' = [box |-> box, result |-> None]
    /\ boxes' = boxes
    /\ gen' = gen + 1
    /\ UNCHANGED <<Config, img, Later, pc, err>>

\* fragment, gen < depth: an average of the splitter raises; boxize does not return.
SpawnRaise ==
    /\ pc = "boxize" /\ gen < depth
    /\ \E boxIndex \in 1 .. Len(boxes) :
        LET box == boxes[boxIndex] IN
        \E xs \in AxisCuts(box.Left, box.Right), ys \in AxisCuts(box.Top, box.Bottom) :
            err' \in SplitErrors(Attempts(box, xs, ys))
    /\ pc' = "error"
    /\ UNCHANGED <<Config, img, Later, boxes, gen, split_result>>

\* fragment, gen >= depth: boxize returns boxes and main goes on to colorize.
FragmentReturn ==
    /\ pc = "boxize" /\ gen >= depth
    /\ pc' = "colorize"
    /\ UNCHANGED <<Config, img, Later, boxes, gen, split_result, err>>

\* --------------------------------------------------------------- roundize
\* Python's round of the fraction num / den (num >= 0, den > 0): to the nearest
\* integer, a tie to the even one.
Round(num, den) ==
    LET q == num \div den
        r == num % den
    IN  IF 2 * r < den THEN q
        ELSE IF 2 * r > den THEN q + 1
        ELSE IF q % 2 = 0 THEN q ELSE q + 1

\* roundize without its test of value > 255.
roundize_unclamped(num, den, grain) ==
    (grain.num * Round(num * grain.den, den * grain.num)) \div grain.den

\* roundize(value, grain) for value = num / den and grain = grain.num / grain.den
\* (positive): int(grain * round(value / grain)), and 255 when that is above 255.
\* int truncates, which for a value >= 0 is the floor.
roundize(num, den, grain) ==
    LET value == (grain.num * Round(num * grain.den, den * grain.num)) \div grain.den
    IN  IF value > 255 THEN 255 ELSE value

contrastize(grain, color) == [c \in 1 .. 3 |-> roundize(color.sum[c], color.n, grain)]

White == <<255, 255, 255>>
Black == <<0, 0, 0>>

\* --------------------------------------------------------------- putpixel
\* The pixel img.putpixel((x, y), ...) addresses: a negative coordinate counts
\* from the far side; what is then outside the image raises IndexError.
Resolve(p) ==
    <<IF p[1] < 0 THEN p[1] + width ELSE p[1], IF p[2] < 0 THEN p[2] + height ELSE p[2]>>

\* The pixels a sequence of putpixel calls writes: those before the first call
\* that raises.
WrittenBy(ps) ==
    {Resolve(ps[i]) : i \in {j \in 1 .. Len(ps) : \A l \in 1 .. j : Resolve(ps[l]) \in Canvas}}

Raises(ps) == \E i \in 1 .. Len(ps) : Resolve(ps[i]) \notin Canvas

\* --------------------------------------------------------------- colorize
whitened(w, count) == (w.num * count) \div w.den

\* The pixels of the painting loop for one box, in the order of the two ranges:
\* for x in range(Left, Right + 1): for y in range(Bottom, Top + 1).
BoxPixels(box) ==
    LET w == Max(box.Right - box.Left + 1, 0)
        h == Max(box.Top - box.Bottom + 1, 0)
    IN  [i \in 1 .. w * h |-> <<box.Left + ((i - 1) \div h), box.Bottom + ((i - 1) % h)>>]

\* The first loop with i <= whitened in place of i < whitened.
BoxColor_inclusive(i, count, w, grain, avg) ==
    IF i - 1 <= whitened(w, count) THEN White ELSE contrastize(grain, avg)

\* The first loop: the color of box i given its avg_color.
BoxColor(i, count, w, grain, avg) ==
    IF i - 1 < whitened(w, count) THEN White ELSE contrastize(grain, avg)

\* Whether the first loop raises at box i once average returned: roundize divides
\* by grain.
ColorError(i, count, w, grain) ==
    IF i - 1 >= whitened(w, count) /\ grain.num = 0 THEN {"ZeroDivisionError"} ELSE {}

\* The avg_color of the first n boxes, when average returns for each of them.
RECURSIVE MeanSeqs(_, _)
MeanSeqs(bs, n) ==
    IF n = 0 THEN {<<>>}
    ELSE {Append(ms, m) : ms \in MeanSeqs(bs, n - 1), m \in Means(bs[n])}

\* The second loop over colors[i..]: the buffer it leaves and whether it raised.
RECURSIVE Paint(_, _, _)
Paint(im, cs, i) ==
    IF i > Len(cs) THEN [img |-> im, raised |-> FALSE]
    ELSE LET ps == BoxPixels(cs[i][1])
             done == WrittenBy(ps)
             im2 == [p \in Canvas |-> IF p \in done THEN cs[i][2] ELSE im[p]]
         IN  IF Raises(ps) THEN [img |-> im2, raised |-> TRUE]
             ELSE Paint(im2, cs, i + 1)

Whites == {[num |-> k, den |-> WhiteDen] : k \in 0 .. WhiteDen}
Grains == {[num |-> 0, den |-> 1], [num |-> 32, den |-> 1]}

ColorList(ms, w, grain) ==
    [i \in 1 .. Len(ms) |-> <<boxes[i], BoxColor(i, Len(boxes), w, grain, ms[i])>>]

\* colorize returns: both loops run to their end.
Colorize(ws, gs) ==
    /\ pc = "colorize"
    /\ \E w \in ws, grain \in gs :
        /\ white' = w /\ contrast' = grain
        /\ \A i \in 1 .. Len(boxes) : ColorError(i, Len(boxes), w, grain) = {}
        /\ \E ms \in MeanSeqs(boxes, Len(boxes)) :
            LET res == Paint(img, ColorList(ms, w, grain), 1) IN
            /\ ~res.raised
            /\ means' = ms
            /\ colors' = ColorList(ms, w, grain)
            /\ img' = res.img
    /\ drawn' = [i \in 1 .. Len(boxes) |-> sampler(boxes[i])]
    /\ pc' = "borderize"
    /\ UNCHANGED <<Config, boxes, gen, split_result, bmargin, written, err>>

\* colorize raises in its first loop, at box i: nothing is painted.
ColorizeRaise ==
    /\ pc = "colorize"
    /\ \E w \in Whites, grain \in Grains :
        /\ white' = w /\ contrast' = grain
        /\ \E i \in 1 .. Len(boxes) :
            /\ \A j \in 1 .. i - 1 : ColorError(j, Len(boxes), w, grain) = {}
            /\ \E ms \in MeanSeqs(boxes, i - 1) :
                /\ \/ err' \in AvgError(boxes[i]) /\ means' = ms
                   \/ /\ err' \in ColorError(i, Len(boxes), w, grain)
                      /\ \E m \in Means(boxes[i]) : means' = Append(ms, m)
                /\ colors' = ColorList(ms, w, grain)
            /\ drawn' = [j \in 1 .. i |-> sampler(boxes[j])]
    /\ pc' = "error"
    /\ UNCHANGED <<Config, img, boxes, gen, split_result, bmargin, written>>

\* colorize raises in its second loop: putpixel outside the image, after the
\* pixels before it were painted.
ColorizePaintRaise ==
    /\ pc = "colorize"
    /\ \E w \in Whites, grain \in Grains :
        /\ white' = w /\ contrast' = grain
        /\ \A i \in 1 .. Len(boxes) : ColorError(i, Len(boxes), w, grain) = {}
        /\ \E ms \in MeanSeqs(boxes, Len(boxes)) :
            LET res == Paint(img, ColorList(ms, w, grain), 1) IN
            /\ res.raised
            /\ means' = ms
            /\ colors' = ColorList(ms, w, grain)
            /\ img' = res.img
    /\ drawn' = [i \in 1 .. Len(boxes) |-> sampler(boxes[i])]
    /\ pc' = "error"
    /\ err' = "IndexError"
    /\ UNCHANGED <<Config, boxes, gen, split_result, bmargin, written>>

\* -------------------------------------------------------------- borderize
\* for a in range(lo, hi + 1): for d in range(m + 1): the pairs <<a, d>>, in order.
Band(lo, hi, m) ==
    LET count == Max(hi - lo + 1, 0)
    IN  [i \in 1 .. count * (m + 1) |-> <<lo + ((i - 1) \div (m + 1)), (i - 1) % (m + 1)>>]

\* The bottom band with box.Bottom >= 0 in place of box.Bottom > 0.
BottomBand_outer(box, m) ==
    LET b == Band(box.Left, box.Right, m)
    IN  IF box.Bottom >= 0
        THEN [i \in DOMAIN b |-> <<b[i][1], box.Bottom + b[i][2]>>] ELSE <<>>

BottomBand(box, m) ==
    LET b == Band(box.Left, box.Right, m)
    IN  IF box.Bottom > 0
        THEN [i \in DOMAIN b |-> <<b[i][1], box.Bottom + b[i][2]>>] ELSE <<>>
TopBand(box, m) ==
    LET b == Band(box.Left, box.Right, m)
    IN  IF box.Top < height - 1
        THEN [i \in DOMAIN b |-> <<b[i][1], box.Top - b[i][2]>>] ELSE <<>>
LeftBand(box, m) ==
    LET b == Band(box.Bottom, box.Top, m)
    IN  IF box.Left > 0
        THEN [i \in DOMAIN b |-> <<box.Left + b[i][2], b[i][1]>>] ELSE <<>>
RightBand(box, m) ==
    LET b == Band(box.Bottom, box.Top, m)
    IN  IF box.Right < width - 1
        THEN [i \in DOMAIN b |-> <<box.Right - b[i][2], b[i][1]>>] ELSE <<>>

\* borders without its test of margin > 0.
borders_unguarded(box, m) ==
    BottomBand(box, m) \o TopBand(box, m) \o LeftBand(box, m) \o RightBand(box, m)

\* The pixels the generator borders(box) yields, in order.
borders(box, m) ==
    IF m > 0
    THEN BottomBand(box, m) \o TopBand(box, m) \o LeftBand(box, m) \o RightBand(box, m)
    ELSE <<>>

\* The loop over boxes[i..]: the buffer it leaves, the pixels written for each
\* box and whether putpixel raised.
RECURSIVE Border(_, _, _, _)
Border(im, wr, i, m) ==
    IF i > Len(boxes) THEN [img |-> im, written |-> wr, raised |-> FALSE]
    ELSE LET ps == borders(boxes[i], m)
             done == WrittenBy(ps)
             im2 == [p \in Canvas |-> IF p \in done THEN Black ELSE im[p]]
         IN  IF Raises(ps) THEN [img |-> im2, written |-> Append(wr, done), raised |-> TRUE]
             ELSE Border(im2, Append(wr, done), i + 1, m)

\* borderize returns.
BorderizeOK ==
    /\ pc = "borderize"
    /\ \E m \in 0 .. MaxBorder :
        LET res == Border(img, <<>>, 1, m) IN
        /\ ~res.raised
        /\ bmargin' = m
        /\ img' = res.img
        /\ written' = res.written
    /\ pc' = "done"
    /\ UNCHANGED <<Config, boxes, gen, split_result, white, contrast, drawn, means, colors, err>>

\* borderize raises: putpixel outside the image, after the pixels before it
\* were painted.
BorderizeRaise ==
    /\ pc = "borderize"
    /\ \E m \in 0 .. MaxBorder :
        LET res == Border(img, <<>>, 1, m) IN
        /\ res.raised
        /\ bmargin' = m
        /\ img' = res.img
        /\ written' = res.written
    /\ pc' = "error"
    /\ err' = "IndexError"
    /\ UNCHANGED <<Config, boxes, gen, split_result, white, contrast, drawn, means, colors>>

ColorizeOK == Colorize(Whites, Grains)

Next ==
    \/ SpawnSplit \/ SpawnNoSplit \/ SpawnRaise \/ FragmentReturn
    \/ ColorizeOK \/ ColorizeRaise \/ ColorizePaintRaise
    \/ BorderizeOK \/ BorderizeRaise

Spec == Init /\ [][Next]_vars

\* ----------------------------------------------------- boxize on its own
\* The partition search alone, to a larger depth than the whole pipeline.
InitBox == Start(0 .. MaxDepth)

NextBox == SpawnSplit \/ SpawnNoSplit \/ SpawnRaise \/ FragmentReturn

SpecBox == InitBox /\ [][NextBox]_vars

\* ------------------------------------------------- quantization on its own
\* One-pixel images of every gray level, colorized with no white box and every
\* grain n/1 and n/2 up to MaxGrain (halves are exact in binary floating point):
\* the single box's average is the pixel itself, so colorize applies roundize to
\* every channel value.
Grays == {<<c, c>> : c \in {<<v, v, v>> : v \in 0 .. 255}}
QGrains == {[num |-> n, den |-> d] : n \in 1 .. MaxGrain, d \in {1, 2}}

InitQ ==
    /\ width = 1
    /\ height = 1
    /\ src \in Grays
    /\ img = SourceImage
    /\ cuts = 1
    /\ margin = 0
    /\ depth = 1
    /\ boxes = <<StartBox>>
    /\ gen = 0
    /\ split_result = [box |-> NoBox, result |-> None]
    /\ white = [num |-> 0, den |-> 1]
    /\ contrast = [num |-> 1, den |-> 1]
    /\ drawn = <<>>
    /\ means = <<>>
    /\ colors = <<>>
    /\ bmargin = 0
    /\ written = <<>>
    /\ pc = "boxize"
    /\ err = "none"

ColorizeQ == Colorize({[num |-> 0, den |-> 1]}, QGrains)

NextQ == SpawnNoSplit \/ FragmentReturn \/ ColorizeQ

SpecQ == InitQ /\ [][NextQ]_vars

\* ----------------------------------------------------------------- regions
Normalized(box) == box.Left <= box.Right /\ box.Bottom <= box.Top
Region(box) == (box.Left .. box.Right) \X (box.Bottom .. box.Top)
Area(box) == (box.Right - box.Left + 1) * (box.Top - box.Bottom + 1)
InCanvas(box) ==
    /\ Normalized(box)
    /\ 0 <= box.Left /\ box.Right <= width - 1
    /\ 0 <= box.Bottom /\ box.Top <= height - 1

ValidPartition(bs) ==
    /\ \A i \in 1 .. Len(bs) : InCanvas(bs[i])
    /\ UNION {Region(bs[i]) : i \in 1 .. Len(bs)} = Canvas
    /\ \A i, j \in 1 .. Len(bs) : i # j => Region(bs[i]) \cap Region(bs[j]) = {}

\* C1: after every generation step the region sequence is a valid partition of
\* the canvas: every region has min <= max inside the canvas, the regions cover
\* the canvas and no two share a pixel.
C1_ValidPartition == ValidPartition(boxes)

\* C2: whenever split returns a pair for an in-canvas region, the two regions
\* partition it exactly: their union is the region, they do not overlap, their
\* areas sum to its area and each has min <= max on both axes.
C2_SplitExact ==
    (split_result.result # None /\ InCanvas(split_result.box)) =>
        LET box1 == split_result.result[1]
            box2 == split_result.result[2]
        IN  /\ Normalized(box1) /\ Normalized(box2)
            /\ Region(box1) \cup Region(box2) = Region(split_result.box)
            /\ Region(box1) \cap Region(box2) = {}
            /\ Area(box1) + Area(box2) = Area(split_result.box)

\* C3: for every region with min <= max on each axis, average draws exactly
\* min(width * height, sampleCap) samples, which is at least one.
C3_SampleCount ==
    \A i \in 1 .. Len(drawn) :
        Normalized(boxes[i]) =>
            drawn[i] = Min(Area(boxes[i]), maxSample) /\ drawn[i] >= 1

\* The one-pixel edge lines of the sides of a box that are not on the outer
\* canvas boundary.
EdgeLines(box) ==
    (IF box.Bottom > 0 THEN {<<x, box.Bottom>> : x \in box.Left .. box.Right} ELSE {})
    \cup (IF box.Top < height - 1 THEN {<<x, box.Top>> : x \in box.Left .. box.Right} ELSE {})
    \cup (IF box.Left > 0 THEN {<<box.Left, y>> : y \in box.Bottom .. box.Top} ELSE {})
    \cup (IF box.Right < width - 1 THEN {<<box.Right, y>> : y \in box.Bottom .. box.Top} ELSE {})

InternalEdges == UNION {EdgeLines(boxes[i]) : i \in 1 .. Len(boxes)}
BorderPixels == UNION {written[i] : i \in 1 .. Len(written)}

\* The buffer as colorize left it.
Colorized == Paint(SourceImage, colors, 1).img

\* C4, as claimed: borderize with margin 0 on a partition with an internal edge
\* paints exactly the one-pixel edge lines of the sides off the canvas boundary.
C4_ZeroMarginPaintsEdgeLines ==
    (pc = "done" /\ bmargin = 0 /\ InternalEdges # {}) =>
        BorderPixels # {} /\ BorderPixels = InternalEdges

\* C4, amended: borderize with margin 0 paints no pixel, whatever the partition,
\* and leaves the buffer as colorize left it.
C4_ZeroMarginPaintsNothing ==
    (pc = "done" /\ bmargin = 0) => BorderPixels = {} /\ img = Colorized

C4_Witness == pc = "done" /\ bmargin = 0 /\ ValidPartition(boxes) /\ InternalEdges # {}

\* contrast as colorize received it is a positive placeholder until colorize runs.
Degenerate == depth <= 0 \/ cuts <= 0 \/ maxSample <= 0 \/ contrast.num <= 0

\* C5: with a degenerate configuration the engine ends in an error with the
\* buffer unchanged: it never completes and never mutates a pixel.
C5_DegenerateFailsFast == Degenerate => (pc # "done" /\ img = SourceImage)

\* The band of margin + 1 lines a side paints, from the edge inward.
InwardBand(box, side, m) ==
    CASE side = "bottom" -> {<<x, box.Bottom + d>> : x \in box.Left .. box.Right, d \in 0 .. m}
      [] side = "top" -> {<<x, box.Top - d>> : x \in box.Left .. box.Right, d \in 0 .. m}
      [] side = "left" -> {<<box.Left + d, y>> : y \in box.Bottom .. box.Top, d \in 0 .. m}
      [] side = "right" -> {<<box.Right - d, y>> : y \in box.Bottom .. box.Top, d \in 0 .. m}

\* The sides of a box that do not lie on the outer canvas boundary.
InnerSides(box) ==
    {side \in {"bottom", "top", "left", "right"} :
        CASE side = "bottom" -> box.Bottom # 0
          [] side = "top" -> box.Top # height - 1
          [] side = "left" -> box.Left # 0
          [] side = "right" -> box.Right # width - 1}

\* C6: a side of a region on the outer canvas boundary contributes no border
\* pixel: what borderize wrote for a box lies in the bands of its other sides;
\* and a single region covering the whole canvas leaves no pixel painted.
C6_OuterSidesUnpainted ==
    /\ \A i \in 1 .. Len(written) :
        written[i] \subseteq
            {Resolve(p) : p \in UNION {InwardBand(boxes[i], side, bmargin) :
                                          side \in InnerSides(boxes[i])}}
    /\ (pc = "done" /\ boxes = <<StartBox>>) => (BorderPixels = {} /\ img = Colorized)

C6_Witness ==
    /\ pc = "done" /\ bmargin > 0 /\ BorderPixels # {}
    /\ \E i \in 1 .. Len(boxes) : InnerSides(boxes[i]) \notin {{}, {"bottom", "top", "left", "right"}}

Nearest(a, grain, v) == 2 * abs(a * grain.num - v * grain.den) <= grain.num

C9_SpawnFrame ==
    [][/\ Len(boxes') <= gen' + 1
       /\ \/ boxes' = boxes
          \/ /\ gen' = gen + 1
             /\ Len(boxes') = Len(boxes) + 1
             /\ \E i \in 1 .. Len(boxes) :
                 /\ \A j \in 1 .. i - 1 : boxes'[j] = boxes[j]
                 /\ \A j \in i + 1 .. Len(boxes) : boxes'[j + 1] = boxes[j]
                 /\ <<boxes'[i], boxes'[i + 1]>> = split_result'.result
                 /\ split_result'.box = boxes[i]
                 /\ boxes'[i].Left = boxes[i].Left /\ boxes'[i].Bottom = boxes[i].Bottom
                 /\ boxes'[i + 1].Right = boxes[i].Right /\ boxes'[i + 1].Top = boxes[i].Top]_vars

C9_Witness == gen = 2 /\ Len(boxes) = 3 /\ boxes[1] # split_result.result[1]

\* C10: every border pixel painted for a region lies inside that region's own
\* rectangle, hence inside the canvas, and no border write falls outside the
\* buffer.
C10_BordersInside ==
    /\ \A i \in 1 .. Len(written) : written[i] \subseteq Region(boxes[i])
    /\ ~(pc = "error" /\ written # <<>>)
====
